---- MODULE Spec2Model ----
(***************************************************************************)
(* A model of package cmd (src/cmd.go, lines 1-309): a Program holding a   *)
(* root command and named commands, Program.Run dispatching an argument    *)
(* vector to a callback, and the usage renderers. Lines 311-579 of the     *)
(* file hold an earlier version of the package, whose Run wrapped the      *)
(* callback's error with the program name; the model follows lines 1-309.  *)
(*                                                                         *)
(* Go slices are 0-based, TLA+ sequences 1-based: At(s, i) is Go's s[i]    *)
(* and From(s, i) is Go's s[i:].                                           *)
(***************************************************************************)
EXTENDS Integers, Sequences, FiniteSets, TLC

VARIABLES
    root,          \* Program.root: <<>> for nil, <<c>> for a command c
    commands,      \* Program.commands, in registration order
    calledCmd,     \* Program.calledCmd
    printCmdHelp,  \* Program.printCmdHelp
    envArgs,       \* Program.env.Args
    result,        \* what the last Run call returned (or that it panicked)
    called,        \* the callback invocations of the last Run call, in order
    printed,       \* what the last Run call printed, in order
    fnRet,         \* what the callback of the last Run call was set to return
    fsFlags,       \* usage rendering: the flags a command registers, in order
    usage          \* usage rendering: <<>> or <<text>>, the rendered usage

vars == <<root, commands, calledCmd, printCmdHelp, envArgs, result, called,
          printed, fnRet, fsFlags, usage>>

----------------------------------------------------------------------------
(* Bounds.                                                                 *)

MaxArgs == 3      \* longest argument vector, argv[0] included
MaxCommands == 2  \* most named commands in a registry
MaxFlags == 3     \* most flags a rendered command registers

----------------------------------------------------------------------------
(* Strings. A string is an opaque value to TLC, so the bytes of every      *)
(* string whose content the code inspects are spelled out here.            *)

Bytes(s) ==
    CASE s = "help"    -> <<"h", "e", "l", "p">>
      [] s = "-H"      -> <<"-", "H">>
      [] s = "-h"      -> <<"-", "h">>
      [] s = "build"   -> <<"b", "u", "i", "l", "d">>
      [] s = "default" -> <<"d", "e", "f", "a", "u", "l", "t">>
      [] s = "greet"   -> <<"g", "r", "e", "e", "t">>
      [] s = "foo"     -> <<"f", "o", "o">>
      [] s = "-x"      -> <<"-", "x">>
      [] s = "--"      -> <<"-", "-">>
      [] s = "prog"    -> <<"p", "r", "o", "g">>
      [] s = "p"       -> <<"p">>
      [] s = "pirate"  -> <<"p", "i", "r", "a", "t", "e">>
      [] s = "n"       -> <<"n">>
      [] s = "v"       -> <<"v">>
      [] s = "x"       -> <<"x">>
      [] s = "h"       -> <<"h">>
      [] s = ""        -> <<>>

\* The byte value of a character (ASCII).
Ord(c) ==
    CASE c = "-" -> 45  [] c = "=" -> 61  [] c = "H" -> 72
      [] c = "a" -> 97  [] c = "b" -> 98  [] c = "d" -> 100
      [] c = "e" -> 101 [] c = "f" -> 102 [] c = "g" -> 103
      [] c = "h" -> 104 [] c = "i" -> 105 [] c = "l" -> 108
      [] c = "n" -> 110 [] c = "o" -> 111 [] c = "p" -> 112
      [] c = "r" -> 114 [] c = "t" -> 116 [] c = "u" -> 117
      [] c = "v" -> 118 [] c = "x" -> 120

At(s, i) == s[i + 1]
From(s, i) == SubSeq(s, i + 1, Len(s))

\* strings.ToLower: upper-case ASCII letters (65..90) move up by 32.
ToLower(b) ==
    [i \in 1..Len(b) |->
        IF Ord(b[i]) >= 65 /\ Ord(b[i]) <= 90
        THEN CHOOSE c \in {"h"} : Ord(c) = Ord(b[i]) + 32
        ELSE b[i]]

\* strings.Contains
Contains(b, sub) ==
    \E i \in 1..(Len(b) - Len(sub) + 1) : SubSeq(b, i, i + Len(sub) - 1) = sub

\* Go's < on strings: byte-wise lexicographic order.
StrLess(a, b) ==
    \E i \in 1..Len(b) :
        /\ i <= Len(a) + 1
        /\ SubSeq(a, 1, i - 1) = SubSeq(b, 1, i - 1)
        /\ (i = Len(a) + 1 \/ Ord(a[i]) < Ord(b[i]))

\* isHelp checks whether the provided arg is for help
isHelp(arg) ==
    \/ Contains(ToLower(Bytes(arg)), Bytes("help"))
    \/ ToLower(Bytes(arg)) = Bytes("-h")

\* isCommand checks if the provided arg is a command
isCommand(arg, cmds) == \E i \in 1..Len(cmds) : cmds[i].name = arg

programName == "prog"
programDesc == ""
defaultCommand == "default"

----------------------------------------------------------------------------
(* Commands and their flags (caller-supplied; these are the inputs).       *)

Flag(n, u, d, b) == [name |-> n, usage |-> u, defValue |-> d, isBool |-> b]

Cmd(n, a, d, h, f) == [name |-> n, args |-> a, desc |-> d, help |-> h, flags |-> f]

\* src/example/greet/main.go: the root command of the example.
greetCommand ==
    Cmd("greet", "[name]", "says hello", "a friendly greeting in the terminal.",
        << Flag("pirate", "Say hello like a pirate", "false", TRUE),
           Flag("p", "Say hello like a pirate", "false", TRUE) >>)

buildCommand ==
    Cmd("build", "[target]", "builds", "build a target.",
        << Flag("x", "Print commands", "false", TRUE) >>)

helpCommand == Cmd("help", "", "a command named help", "help.", << >>)

defaultNamedCommand == Cmd("default", "", "a command named default", "default.", << >>)

\* The named commands a registry draws from, in registration order.
CommandPool == <<buildCommand, helpCommand, defaultNamedCommand>>

\* The subsequences of s of length at most n.
SubSeqs(s, n) ==
    { [k \in 1..Cardinality(I) |->
          s[CHOOSE i \in I : Cardinality({ j \in I : j < i }) = k - 1]] :
      I \in { J \in SUBSET (1..Len(s)) : Cardinality(J) <= n } }

\* Sequences over S without repetition, of length at most n.
InjSeqs(S, n) ==
    UNION { { s \in [1..k -> S] : \A i, j \in 1..k : i # j => s[i] # s[j] } :
            k \in 0..n }

Orderings(S) == { s \in InjSeqs(S, Cardinality(S)) : Len(s) = Cardinality(S) }

----------------------------------------------------------------------------
(* Usage rendering.                                                        *)

\* prettyDefaultValue sets the default value to `<none>` if it is blank
prettyDefaultValue(s) == IF s = "" THEN "<none>" ELSE s

\* The flags visited in the order they were registered, which is not what
\* VisitAll does.
registrationOrder(flags) == flags

\* flag.FlagSet.VisitAll visits the flags in lexicographical order of their
\* names (package flag keeps them in a map and sorts the names).
sortFlags(flags) ==
    LET n == Len(flags)
        rank(i) == Cardinality({ j \in 1..n :
                       StrLess(Bytes(flags[j].name), Bytes(flags[i].name)) })
    IN  [k \in 1..n |-> flags[CHOOSE i \in 1..n : rank(i) = k - 1]]

Row(names, f) ==
    [names |-> names, usage |-> f.usage, def |-> prettyDefaultValue(f.defValue)]

\* The callback of fs.VisitAll in createCommandUsage, applied to
\* visited[i..]: hold is the map from a usage text to the flag held under it.
RECURSIVE visitAll(_, _, _, _)
visitAll(visited, i, hold, rows) ==
    IF i > Len(visited) THEN [hold |-> hold, rows |-> rows]
    ELSE LET f == visited[i]
             held == { hf \in hold : hf.usage = f.usage }
         IN  IF held # {}
             THEN LET hf == CHOOSE h \in held : TRUE
                  IN  visitAll(visited, i + 1, hold \ {hf},
                               Append(rows, Row(<<hf.name, f.name>>, f)))
             ELSE visitAll(visited, i + 1, hold \cup {f}, rows)

\* The rows of the flags table: the merged rows in visiting order, then the
\* held flags in the order Go ranges over the map, which is any order.
flagRows(flags) ==
    LET v == visitAll(sortFlags(flags), 1, {}, << >>)
    IN  { v.rows \o [k \in 1..Len(o) |-> Row(<<o[k].name>>, o[k])] :
          o \in Orderings(v.hold) }

\* createCommandUsage: the set of texts it can return. A text is kept as its
\* parts; tail is the number of newlines the text ends with.
createCommandUsage(r, flags, cmd) ==
    { [kind |-> "command",
       usageLine |-> IF r # << >> /\ r[1].name = cmd.name
                     THEN <<programName, cmd.args>>
                     ELSE <<programName, cmd.name, cmd.args>>,
       help |-> cmd.help,
       flags |-> Len(flags) > 0,
       rows |-> rows,
       tail |-> 2] : rows \in flagRows(flags) }

Panic(msg) == [kind |-> "panic", msg |-> msg]

\* p.usage(), set by createProgramUsage: the set of its outcomes, each a
\* text or a panic (p.root.Name() on a nil root).
programUsage(r, cmds) ==
    IF Len(cmds) > 0
    THEN { [kind |-> "program",
            banner |-> programName,
            desc |-> programDesc,
            rows |-> (IF r # << >> THEN << <<"[default]", r[1].name>> >> ELSE << >>)
                     \o [i \in 1..Len(cmds) |-> <<cmds[i].name, cmds[i].desc>>],
            trailer |-> programName,
            tail |-> 1] }
    ELSE IF r = << >>
         THEN { Panic("nil pointer dereference") }
         ELSE { [t EXCEPT !.tail = 1] : t \in createCommandUsage(r, r[1].flags, r[1]) }

----------------------------------------------------------------------------
(* flag.FlagSet.Parse, as Run uses it (flag.ContinueOnError).              *)

\* strconv.ParseBool accepts these spellings.
boolSpellings == { <<"1">>, <<"t">>, <<"T">>, <<"t", "r", "u", "e">>,
                   <<"0">>, <<"f">>, <<"F">>, <<"f", "a", "l", "s", "e">> }

\* The index of the first "=" of name after its first byte, or 0.
equalsAt(name) ==
    LET at == { i \in 2..Len(name) : name[i] = "=" }
    IN  IF at = {} THEN 0 ELSE CHOOSE i \in at : \A j \in at : i <= j

\* FlagSet.parseOne on the arguments args with the declared flags formal:
\* seen (a flag was consumed), err, the arguments left, and what went to the
\* flag set's output: "message" for failf's line, "usage" for a call of
\* fs.Usage.
parseOne(formal, args) ==
    LET stop(rest) == [seen |-> FALSE, err |-> FALSE, args |-> rest, out |-> << >>]
        failf      == [seen |-> FALSE, err |-> TRUE, args |-> args,
                       out |-> <<"message", "usage">>]
    IN
    IF Len(args) = 0 THEN stop(args)
    ELSE LET s == Bytes(args[1]) IN
    IF Len(s) < 2 \/ s[1] # "-" THEN stop(args)
    ELSE LET numMinuses == IF s[2] = "-" THEN 2 ELSE 1 IN
    IF numMinuses = 2 /\ Len(s) = 2 THEN stop(Tail(args))
    ELSE LET full == SubSeq(s, numMinuses + 1, Len(s)) IN
    IF Len(full) = 0 \/ full[1] = "-" \/ full[1] = "=" THEN failf
    ELSE LET eq       == equalsAt(full)
             hasValue == eq # 0
             name     == IF hasValue THEN SubSeq(full, 1, eq - 1) ELSE full
             value    == IF hasValue THEN SubSeq(full, eq + 1, Len(full)) ELSE << >>
             rest     == Tail(args)
             found    == { i \in 1..Len(formal) : Bytes(formal[i].name) = name }
         IN
         IF found = {}
         THEN IF name = Bytes("help") \/ name = Bytes("h")
              THEN [seen |-> FALSE, err |-> TRUE, args |-> rest, out |-> <<"usage">>]
              ELSE [failf EXCEPT !.args = rest]
         ELSE LET flag == formal[CHOOSE i \in found : TRUE] IN
              IF flag.isBool
              THEN IF hasValue /\ value \notin boolSpellings
                   THEN [failf EXCEPT !.args = rest]
                   ELSE [seen |-> TRUE, err |-> FALSE, args |-> rest, out |-> << >>]
              ELSE IF ~hasValue /\ Len(rest) = 0
                   THEN [failf EXCEPT !.args = rest]
                   ELSE [seen |-> TRUE, err |-> FALSE,
                         args |-> IF hasValue THEN rest ELSE Tail(rest),
                         out |-> << >>]

\* FlagSet.Parse: parseOne until no flag is seen; fs.Args() is what is left.
RECURSIVE Parse(_, _)
Parse(formal, args) ==
    LET one == parseOne(formal, args)
    IN  IF one.seen THEN Parse(formal, one.args) ELSE one

----------------------------------------------------------------------------
(* Program.Run.                                                            *)

Nil == [kind |-> "nil"]
Error(e) == [kind |-> "error", err |-> e]

\* fmt.Errorf(p.usage()): an error whose text is the usage (no text of the
\* model holds a formatting verb).
UsageError(text) == Error([type |-> "errorString", text |-> text])
ErrParseArgs == Error([type |-> "ErrParseArgs"])
ErrNoDefaultCommand(text) == Error([type |-> "ErrNoDefaultCommand", usage |-> text])
ErrNoSuchCommand(prog, name) ==
    Error([type |-> "ErrNoSuchCommand", programName |-> prog, commandName |-> name])

\* An error wrapped with the program name, as fmt.Errorf("%s: %v", p.name, err).
Wrapped(prog, r) ==
    IF r.kind = "error"
    THEN Error([type |-> "wrapped", context |-> prog, inner |-> r.err])
    ELSE r

\* What the caller's callback may return.
FnReturns == { Nil, Error([type |-> "callback", text |-> "boom"]) }

\* parseArgs: the set of its outcomes, each the error returned (or Nil, or a
\* panic of p.usage()) and the fields calledCmd and printCmdHelp afterwards.
parseArgs(p, args) ==
    LET keep(ret) == [ret |-> ret, calledCmd |-> p.calledCmd,
                      printCmdHelp |-> p.printCmdHelp]
        set(name) == [ret |-> Nil, calledCmd |-> name,
                      printCmdHelp |-> p.printCmdHelp]
    IN
    IF Len(args) <= 1 THEN { set(defaultCommand) }
    ELSE IF Len(args) = 2
    THEN IF isHelp(At(args, 1))
         THEN { keep(IF u.kind = "panic" THEN u ELSE UsageError(u)) :
                u \in programUsage(p.root, p.commands) }
         ELSE IF isCommand(At(args, 1), p.commands) THEN { set(At(args, 1)) }
         ELSE IF p.root # << >> THEN { set(defaultCommand) }
         ELSE { keep(ErrNoSuchCommand(programName, At(args, 1))) }
    ELSE IF isHelp(At(args, 1))
         THEN { [ret |-> Nil, calledCmd |-> At(args, 2), printCmdHelp |-> TRUE] }
         ELSE IF isCommand(At(args, 1), p.commands) THEN { set(At(args, 1)) }
         ELSE IF p.root # << >> THEN { set(defaultCommand) }
         ELSE { keep(ErrNoSuchCommand(programName, At(args, 1))) }

\* The callback's error wrapped with the program name before it is
\* returned, as the earlier version of Run did (lines 464-466, 490-492).
invokeWrapped(cmd, posArgs, e) ==
    [result |-> Wrapped(programName, e), fnRet |-> e,
     called |-> << [cmd |-> cmd, args |-> posArgs] >>, printed |-> << >>]

\* return fn(p.env, cmd, fs.Args()), fn returning e
invoke(cmd, posArgs, e) ==
    [result |-> e, fnRet |-> e,
     called |-> << [cmd |-> cmd, args |-> posArgs] >>, printed |-> << >>]

\* A return of Run that never called fn.
return(res, out) ==
    [result |-> res, fnRet |-> Nil, called |-> << >>, printed |-> out]

\* The body Run executes for the located command cmd, whose residual
\* arguments are p.env.Args[skip:]: print its usage, or parse and call fn.
runCommand(p, cmd, args, skip) ==
    IF p.printCmdHelp
    THEN { return(Nil, <<t>>) : t \in createCommandUsage(p.root, cmd.flags, cmd) }
    ELSE IF skip > Len(args)
    THEN { return(Panic("slice bounds out of range"), << >>) }
    ELSE LET parsed == Parse(cmd.flags, From(args, skip)) IN
         IF parsed.err
         THEN { return(ErrParseArgs,
                       [k \in 1..Len(parsed.out) |->
                           IF parsed.out[k] = "usage" THEN t
                           ELSE [kind |-> "message"]]) :
                t \in createCommandUsage(p.root, cmd.flags, cmd) }
         ELSE { invoke(cmd, parsed.args, e) : e \in FnReturns }

\* Run after parseArgs returned nil.
dispatch(p, args) ==
    LET named == { i \in 1..Len(p.commands) : p.commands[i].name = p.calledCmd }
    IN
    IF named # {}
    THEN runCommand(p, p.commands[CHOOSE i \in named : \A j \in named : i <= j],
                    args, 2)
    ELSE IF p.calledCmd = defaultCommand /\ p.root # << >>
    THEN runCommand(p, p.root[1], args, 1)
    ELSE IF p.calledCmd = defaultCommand /\ p.root = << >>
    THEN { return(IF u.kind = "panic" THEN u ELSE ErrNoDefaultCommand(u), << >>) :
           u \in programUsage(p.root, p.commands) }
    ELSE { return(Nil, << >>) }

\* Program.Run(args, fn): the set of its outcomes, each the fields calledCmd
\* and printCmdHelp afterwards and what the call did.
RunOutcomes(p, args) ==
    UNION { { [calledCmd |-> pa.calledCmd, printCmdHelp |-> pa.printCmdHelp,
               result |-> d.result, fnRet |-> d.fnRet, called |-> d.called,
               printed |-> d.printed] :
              d \in IF pa.ret # Nil
                    THEN { return(pa.ret, << >>) }
                    ELSE dispatch([p EXCEPT !.calledCmd = pa.calledCmd,
                                            !.printCmdHelp = pa.printCmdHelp],
                                  args) } :
            pa \in parseArgs(p, args) }

\* The Program as Run finds it.
Program ==
    [root |-> root, commands |-> commands, calledCmd |-> calledCmd,
     printCmdHelp |-> printCmdHelp]

\* The Program NewProgram returns for the same registry.
NewProgram(r, cmds) ==
    [root |-> r, commands |-> cmds, calledCmd |-> "", printCmdHelp |-> FALSE]

----------------------------------------------------------------------------
(* Inputs.                                                                 *)

Tokens == {"help", "-H", "build", "default", "foo", "-x"}

SeqsUpTo(S, n) == UNION { [1..k -> S] : k \in 0..n }

\* The argument vectors: empty, or the program path and up to MaxArgs - 1
\* tokens.
Argvs == { << >> } \cup { <<"prog">> \o s : s \in SeqsUpTo(Tokens, MaxArgs - 1) }

FlagNames == {"p", "pirate", "n", "v"}
FlagUsages == {"Say hello like a pirate", "Your name"}
FlagDefaults == {"", "false"}

\* The flag sets a command can register: no name twice (package flag panics
\* on a redefined flag).
FlagLists ==
    { fl \in SeqsUpTo([name : FlagNames, usage : FlagUsages,
                       defValue : FlagDefaults, isBool : {TRUE}], MaxFlags) :
      \A i, j \in 1..Len(fl) : i # j => fl[i].name # fl[j].name }

----------------------------------------------------------------------------
(* The state machine of Run calls on one Program.                          *)

Init ==
    /\ root \in { << >>, <<greetCommand>> }
    /\ commands \in SubSeqs(CommandPool, MaxCommands)
    /\ calledCmd = ""
    /\ printCmdHelp = FALSE
    /\ envArgs = << >>
    /\ result = [kind |-> "none"]
    /\ called = << >>
    /\ printed = << >>
    /\ fnRet = Nil
    /\ fsFlags = << >>
    /\ usage = << >>

\* One call of Program.Run; a panic ends the process.
Run ==
    /\ result.kind # "panic"
    /\ \E args \in Argvs :
         \E o \in RunOutcomes(Program, args) :
            /\ envArgs' = args
            /\ fnRet' = o.fnRet
            /\ calledCmd' = o.calledCmd
            /\ printCmdHelp' = o.printCmdHelp
            /\ result' = o.result
            /\ called' = o.called
            /\ printed' = o.printed
    /\ UNCHANGED <<root, commands, fsFlags, usage>>

Next == Run

Spec == Init /\ [][Next]_vars

----------------------------------------------------------------------------
(* The state machine of usage rendering: a command registers its flags,    *)
(* createCommandUsage renders its usage.                                   *)

renderedCommand == [greetCommand EXCEPT !.flags = fsFlags]

InitUsage ==
    /\ root \in { << >>, <<greetCommand>> }
    /\ commands = << >>
    /\ calledCmd = ""
    /\ printCmdHelp = FALSE
    /\ envArgs = << >>
    /\ result = [kind |-> "none"]
    /\ called = << >>
    /\ printed = << >>
    /\ fnRet = Nil
    /\ fsFlags \in FlagLists
    /\ usage = << >>

Render ==
    /\ usage = << >>
    /\ \E t \in createCommandUsage(root, fsFlags, renderedCommand) : usage' = <<t>>
    /\ UNCHANGED <<root, commands, calledCmd, printCmdHelp, envArgs, result,
                   called, printed, fnRet, fsFlags>>

NextUsage == Render

SpecUsage == InitUsage /\ [][NextUsage]_vars

----------------------------------------------------------------------------
(* The claims. Each is about the last Run call: its argument vector        *)
(* envArgs, what it returned, printed and called.                          *)

ran == result.kind # "none"
argc == Len(envArgs)

\* The usage texts of the command c of this Program.
commandUsage(c) == createCommandUsage(root, c.flags, c)

\* The program usage texts of this Program (none where p.usage() panics).
programUsageTexts == { u \in programUsage(root, commands) : u.kind # "panic" }

\* The registered command named n (isCommand(n, commands) holds).
commandNamed(n) == commands[CHOOSE i \in 1..Len(commands) : commands[i].name = n]

\* C1: a call with exactly two arguments whose argv[1] is help-like prints
\* the program usage, does not invoke the callback and returns nil.
C1_ProgramHelpReturnsNil ==
    (ran /\ argc = 2 /\ isHelp(At(envArgs, 1))) =>
        /\ result = Nil
        /\ called = << >>
        /\ \E k \in 1..Len(printed) : printed[k] \in programUsageTexts

\* C2: what a Run call returns, prints and calls depends only on its
\* argument vector and the registry: it is what the same call does on a
\* freshly constructed Program.
C2_RunAsOnFreshProgram ==
    ran =>
        \E o \in RunOutcomes(NewProgram(root, commands), envArgs) :
            /\ result = o.result
            /\ printed = o.printed
            /\ called = o.called
            /\ fnRet = o.fnRet

\* C3: for two or more arguments the selection parseArgs leaves is the first
\* applicable of: argv[1] help-like => help (for the program with two
\* arguments, for the command argv[2] with more); argv[1] a registered name
\* => that named command; a default command exists => the default; else
\* NoSuchCommand(argv[1]).
C3_SelectionOrder ==
    (ran /\ argc >= 2) =>
        LET a1 == At(envArgs, 1) IN
        IF isHelp(a1)
        THEN IF argc = 2
             THEN /\ called = << >>
                  /\ \/ result.kind = "panic"
                     \/ result.kind = "error" /\ result.err.type = "errorString"
             ELSE calledCmd = At(envArgs, 2) /\ printCmdHelp
        ELSE IF isCommand(a1, commands)
        THEN calledCmd = a1 /\ ~printCmdHelp
        ELSE IF root # << >>
        THEN calledCmd = defaultCommand /\ ~printCmdHelp
        ELSE result = ErrNoSuchCommand(programName, a1)

\* C4: a call with three or more arguments whose argv[1] is help-like
\* returns nil without invoking the callback and prints a usage text: the
\* usage of the command argv[2] names (a registered command or the default
\* command), the program usage when argv[2] names no command.
C4_CommandHelpAlwaysPrints ==
    (ran /\ argc >= 3 /\ isHelp(At(envArgs, 1))) =>
        LET a2 == At(envArgs, 2) IN
        /\ result = Nil
        /\ called = << >>
        /\ Len(printed) = 1
        /\ printed[1] \in
             IF isCommand(a2, commands) THEN commandUsage(commandNamed(a2))
             ELSE IF root # << >> /\ a2 \in {defaultCommand, root[1].name}
             THEN commandUsage(root[1])
             ELSE programUsageTexts

\* C5: a call with at most one argument resolves to the default: it never
\* invokes the callback with a named command, and with a root command
\* registered it invokes the callback with the root command, the flags
\* parsed from argv[1:] (which is empty).
C5_ShortArgvRunsDefault ==
    (ran /\ argc <= 1) =>
        /\ \A k \in 1..Len(called) : root # << >> /\ called[k].cmd = root[1]
        /\ root # << >> => called = << [cmd |-> root[1], args |-> << >>] >>

\* C6: when the call resolves to the default and no root command is
\* registered, Run returns an ErrNoDefaultCommand whose text is the program
\* usage and does not invoke the callback, whatever the named commands.
C6_NoDefaultCommandError ==
    (ran /\ argc <= 1 /\ root = << >>) =>
        /\ called = << >>
        /\ \E u \in programUsageTexts : result = ErrNoDefaultCommand(u)

\* C7: a Run call invokes the callback at most once and only for a named or
\* default selection whose flags parsed; and it ends in exactly one of:
\* dispatched (the callback ran), usage printed (nil returned), error
\* returned.
C7_OneTerminalOutcome ==
    ran =>
        LET dispatched   == called # << >>
            usagePrinted == called = << >> /\ result = Nil /\ printed # << >>
            errored      == called = << >> /\ result.kind = "error"
        IN  /\ Len(called) <= 1
            /\ dispatched => /\ argc >= 2 => ~isHelp(At(envArgs, 1))
                             /\ printed = << >>
                             /\ result # ErrParseArgs
            /\ dispatched \/ usagePrinted \/ errored
            /\ ~(dispatched /\ usagePrinted)
            /\ ~(dispatched /\ errored)
            /\ ~(usagePrinted /\ errored)

C9_PositionalArguments ==
    (ran /\ argc >= 2 /\ ~isHelp(At(envArgs, 1))) =>
        LET a1 == At(envArgs, 1) IN
        /\ (root # << >> /\ ~isCommand(a1, commands) /\ Bytes(a1)[1] # "-") =>
               called = << [cmd |-> root[1], args |-> From(envArgs, 1)] >>
        /\ (isCommand(a1, commands) /\ called # << >>) =>
               /\ called[1].cmd = commandNamed(a1)
               /\ \E k \in 2..argc : called[1].args = From(envArgs, k)

----------------------------------------------------------------------------
(* The claims about createCommandUsage, under SpecUsage.                   *)

\* The rows of the rendered flags table that show the flag name n.
rowsNaming(n) ==
    { k \in 1..Len(usage[1].rows) :
        \E m \in 1..Len(usage[1].rows[k].names) : usage[1].rows[k].names[m] = n }

\* The registered flags whose description is the text u.
flagsDescribed(u) == { i \in 1..Len(fsFlags) : fsFlags[i].usage = u }

\* Every declared flag name appears in exactly one row; a flag whose
\* description no other flag has is a row of its own.
rowsCoverFlags ==
    \A i \in 1..Len(fsFlags) :
        /\ Cardinality(rowsNaming(fsFlags[i].name)) = 1
        /\ Cardinality(flagsDescribed(fsFlags[i].usage)) = 1 =>
             \E k \in rowsNaming(fsFlags[i].name) :
                 usage[1].rows[k].names = <<fsFlags[i].name>>

\* C10, as the claim states it: two flags with the same description are
\* one row naming both in the order they were registered; a flag with a
\* description of its own is its own row; every flag name is in exactly one
\* row.
C10_AliasesInRegistrationOrder ==
    usage # << >> =>
        /\ rowsCoverFlags
        /\ \A i, j \in 1..Len(fsFlags) :
             (i < j /\ flagsDescribed(fsFlags[i].usage) = {i, j}) =>
                 \E k \in 1..Len(usage[1].rows) :
                     usage[1].rows[k].names = <<fsFlags[i].name, fsFlags[j].name>>

\* C10, amended: the one row of two flags with the same description names
\* them in ascending byte order of their names (the order VisitAll visits
\* them in), whatever the order they were registered in.
C10_AliasesInNameOrder ==
    usage # << >> =>
        /\ rowsCoverFlags
        /\ \A i, j \in 1..Len(fsFlags) :
             (/\ flagsDescribed(fsFlags[i].usage) = {i, j}
              /\ StrLess(Bytes(fsFlags[i].name), Bytes(fsFlags[j].name))) =>
                 \E k \in 1..Len(usage[1].rows) :
                     usage[1].rows[k].names = <<fsFlags[i].name, fsFlags[j].name>>

C10_Witness ==
    /\ usage # << >>
    /\ Len(fsFlags) = 3
    /\ fsFlags[1].name = "pirate" /\ fsFlags[2].name = "p" /\ fsFlags[3].name = "n"
    /\ fsFlags[1].usage = fsFlags[2].usage /\ fsFlags[3].usage # fsFlags[1].usage
    /\ Len(usage[1].rows) = 2
    /\ usage[1].rows[1].names = <<"p", "pirate">>
    /\ usage[1].rows[2].names = <<"n">>

====
